---- MODULE Spec2Model ----
(***************************************************************************)
(* A model of main.py, the point-export CSV converter.                     *)
(*                                                                         *)
(* Strings are sequences of characters.  A character is a one-letter TLA+  *)
(* string, except for the characters that are not printable ASCII:         *)
(*   "NBSP"  U+00A0 no-break space      "ZWSP"  U+200B zero-width space    *)
(*   "ACIRC" U+00C2 A with circumflex   "DEG"   U+00B0 degree sign         *)
(*   "REPL"  U+FFFD replacement char    "APOS"  U+0027 apostrophe          *)
(*   "QUOTE" U+0022 double quote        "TAB"   U+0009   "LF"  U+000A      *)
(***************************************************************************)
EXTENDS Integers, Sequences, FiniteSets, TLC

VARIABLES
    pc,         \* position of the running function or of process_all_raw
    inp,        \* the arguments of the pure function under check
    res,        \* the values the pure functions have returned so far
    fileno,     \* process_all_raw: index of the current source file in csv_files
    src,        \* process_all_raw: the current source file [stem, content, readable]
    rows,       \* process_all_raw: what read_rows returned for src
    pending,    \* process_all_raw: the (key, rows) groups of src not yet written
    cur,        \* process_all_raw: the group being written [key, g_rows, dev_name]
    disk,       \* the output directory: a set of [path, lines], one per file
    attempts,   \* the write_csv calls made for cur: sequence of [path, outcome]
    prompts,    \* the device-name prompts shown for cur
    console     \* the last message printed

vars == <<pc, inp, res, fileno, src, rows, pending, cur, disk, attempts,
          prompts, console>>

procVars == <<fileno, src, rows, pending, cur, disk, attempts, prompts,
              console>>

(***************************************************************************)
(* Bounds of the model.                                                    *)
(***************************************************************************)
MaxLen == 3        \* longest string given to the normalizer
MaxPrefix == 3     \* longest prefix path P of an object reference
MaxUnit == 3       \* longest unit text of a value string
MaxRows == 3       \* longest row list given to sort_rows
MaxCell == 3       \* longest varying text of a source cell
MaxFiles == 2      \* source files discovered in one run
MaxPrompts == 2    \* empty answers to one device-name prompt

StrUpTo(A, n) == UNION {[1..k -> A] : k \in 0..n}

(***************************************************************************)
(* Character classes, as Python's str methods and re module see them.      *)
(***************************************************************************)
Digits == {"0", "1", "2", "3", "4", "5", "6", "7", "8", "9"}

LowerLetters == {"a", "b", "c", "e", "k", "m", "n", "s", "v", "x"}

UpperLetters == {"A", "B", "C", "E", "F", "I", "K", "L", "M", "N", "S", "T", "V", "W", "X"}

IsSpace(c) == c \in {" ", "TAB", "LF", "NBSP"}

IsDigit(c) == c \in Digits

AsciiLetters == LowerLetters \cup UpperLetters

UpperChar(c) ==
    CASE c = "a" -> "A" [] c = "b" -> "B" [] c = "c" -> "C" [] c = "e" -> "E"
      [] c = "k" -> "K" [] c = "m" -> "M" [] c = "n" -> "N" [] c = "s" -> "S"
      [] c = "v" -> "V" [] c = "x" -> "X" [] OTHER -> c

Upper(s) == [i \in 1..Len(s) |-> UpperChar(s[i])]

\* str.strip(): drops the whitespace at both ends
RECURSIVE LStrip(_)
LStrip(s) == IF s # <<>> /\ IsSpace(s[1]) THEN LStrip(Tail(s)) ELSE s

RECURSIVE RStrip(_)
RStrip(s) ==
    IF s # <<>> /\ IsSpace(s[Len(s)]) THEN RStrip(SubSeq(s, 1, Len(s) - 1)) ELSE s

Strip(s) == RStrip(LStrip(s))

\* str.strip(chars) for a single character
RECURSIVE StripChar(_, _)
StripChar(s, c) ==
    IF s # <<>> /\ s[1] = c THEN StripChar(Tail(s), c)
    ELSE IF s # <<>> /\ s[Len(s)] = c THEN StripChar(SubSeq(s, 1, Len(s) - 1), c)
    ELSE s

\* str.replace(pat, rep): every non-overlapping occurrence, left to right
RECURSIVE Replace(_, _, _)
Replace(s, pat, rep) ==
    IF Len(s) < Len(pat) THEN s
    ELSE IF SubSeq(s, 1, Len(pat)) = pat
         THEN rep \o Replace(SubSeq(s, Len(pat) + 1, Len(s)), pat, rep)
         ELSE <<s[1]>> \o Replace(Tail(s), pat, rep)

(***************************************************************************)
(* Text normalizer.                                                        *)
(***************************************************************************)
_normalize_mojibake(s) ==
    IF s = <<>> THEN s
    ELSE LET s1 == Replace(Replace(s, <<"NBSP">>, <<" ">>), <<"ZWSP">>, <<>>)
             s2 == Replace(s1, <<"ACIRC", "DEG">>, <<"DEG">>)
             s3 == Replace(Replace(s2, <<"REPL", "C">>, <<"DEG", "C">>),
                           <<"REPL", "F">>, <<"DEG", "F">>)
         IN  Replace(s3, <<"ACIRC">>, <<>>)

\* re.sub(r"\s+", " ", s): every run of whitespace becomes one space
RECURSIVE CollapseWs(_)
CollapseWs(s) ==
    IF s = <<>> THEN s
    ELSE IF IsSpace(s[1])
         THEN <<" ">> \o CollapseWs(LStrip(s))
         ELSE <<s[1]>> \o CollapseWs(Tail(s))

_clean_ws(s) == Strip(CollapseWs(_normalize_mojibake(s)))

_sanitize_cell(s, empty_placeholder) ==
    LET cleaned == _clean_ws(s)
    IN  IF cleaned # <<>> THEN cleaned ELSE empty_placeholder

(***************************************************************************)
(* The process variables while a pure function is under check.             *)
(***************************************************************************)
NoFile == [stem |-> <<>>, content |-> <<>>, readable |-> TRUE]

NoGroup == [key |-> <<>>, g_rows |-> <<>>, dev_name |-> <<>>]

ProcIdle ==
    /\ fileno = 0
    /\ src = NoFile
    /\ rows = <<>>
    /\ pending = <<>>
    /\ cur = NoGroup
    /\ disk = {}
    /\ attempts = <<>>
    /\ prompts = 0
    /\ console = "none"

(***************************************************************************)
(* The normalizer applied twice.                                           *)
(***************************************************************************)
NormAlphabet == {"REPL", "ACIRC", "DEG", "C", "F", "NBSP", "ZWSP", "x"}

InitNorm ==
    /\ pc = "start"
    /\ inp \in {[s |-> s] : s \in StrUpTo(NormAlphabet, MaxLen)}
    /\ res = [once |-> <<>>, twice |-> <<>>, conce |-> <<>>, ctwice |-> <<>>]
    /\ ProcIdle

NormalizeOnce ==
    /\ pc = "start"
    /\ res' = [res EXCEPT !.once = _normalize_mojibake(inp.s)]
    /\ pc' = "once"
    /\ UNCHANGED <<inp, procVars>>

NormalizeTwice ==
    /\ pc = "once"
    /\ res' = [res EXCEPT !.twice = _normalize_mojibake(res.once)]
    /\ pc' = "twice"
    /\ UNCHANGED <<inp, procVars>>

CleanOnce ==
    /\ pc = "twice"
    /\ res' = [res EXCEPT !.conce = _clean_ws(inp.s)]
    /\ pc' = "conce"
    /\ UNCHANGED <<inp, procVars>>

CleanTwice ==
    /\ pc = "conce"
    /\ res' = [res EXCEPT !.ctwice = _clean_ws(res.conce)]
    /\ pc' = "done"
    /\ UNCHANGED <<inp, procVars>>

NextNorm == NormalizeOnce \/ NormalizeTwice \/ CleanOnce \/ CleanTwice

SpecNorm == InitNorm /\ [][NextNorm]_vars

\* C2: applying the normalizer twice yields the same result as applying it
\* once, for _normalize_mojibake and for _clean_ws, on every input string.
C2_NormalizerIdempotent ==
    /\ pc \in {"twice", "conce", "done"} => res.twice = res.once
    /\ pc = "done" => res.ctwice = res.conce

(***************************************************************************)
(* Reference parser.                                                       *)
(***************************************************************************)
\* the text after the last occurrence of c in s (all of s when c is absent)
RECURSIVE AfterLast(_, _)
AfterLast(s, c) ==
    IF \E i \in 1..Len(s) : s[i] = c
    THEN AfterLast(SubSeq(s, (CHOOSE i \in 1..Len(s) : s[i] = c) + 1, Len(s)), c)
    ELSE s

last_token_after_dot(s) == Strip(AfterLast(s, "."))

\* the length of the longest prefix of s made of characters of the set S
RECURSIVE Span(_, _)
Span(s, S) == IF s # <<>> /\ s[1] \in S THEN 1 + Span(Tail(s), S) ELSE 0

\* re.match(r"^([A-Za-z]+)(\d+)$", obj_ref.strip())
split_type_number(obj_ref) ==
    LET t == Strip(obj_ref)
        nl == Span(t, AsciiLetters)
        nd == Span(SubSeq(t, nl + 1, Len(t)), Digits)
    IN  IF nl >= 1 /\ nd >= 1 /\ nl + nd = Len(t)
        THEN <<Upper(SubSeq(t, 1, nl)), SubSeq(t, nl + 1, Len(t))>>
        ELSE <<t, <<>>>>

IsSep(c) == c \in {"/", "\\"}

\* whether r"[\\/](\d+)\." matches s at position i
DevMatchAt(s, i) ==
    /\ IsSep(s[i])
    /\ LET nd == Span(SubSeq(s, i + 1, Len(s)), Digits)
       IN  nd >= 1 /\ i + nd + 1 <= Len(s) /\ s[i + nd + 1] = "."

DevDigitsAt(s, i) == SubSeq(s, i + 1, i + Span(SubSeq(s, i + 1, Len(s)), Digits))

\* re.search returns the leftmost match
extract_dev_number_slash_only(ref) ==
    LET hits == {i \in 1..Len(ref) : DevMatchAt(ref, i) /\ ref[i] = "/"}
    IN  IF hits = {} THEN <<>>
        ELSE DevDigitsAt(ref, CHOOSE i \in hits : \A j \in hits : i <= j)

extract_dev_number_from_ref(ref) ==
    LET hits == {i \in 1..Len(ref) : DevMatchAt(ref, i)}
    IN  IF hits = {} THEN <<>>
        ELSE DevDigitsAt(ref, CHOOSE i \in hits : \A j \in hits : i <= j)

(***************************************************************************)
(* Object references of the form P + sep + D + "." + L + N.                *)
(***************************************************************************)
PrefixAlphabet == {"/", "\\", "1", ".", "a"}

RefDevs == {<<"1">>, <<"2", "1">>, <<"5", "0", "0">>}

RefLetters == {<<"a">>, <<"A", "v">>, <<"b", "I">>}

RefNumbers == {<<"2">>, <<"1", "0">>}

RefOf(i) == i.P \o <<i.sep>> \o i.D \o <<".">> \o i.L \o i.N

InitRef ==
    /\ pc = "start"
    /\ inp \in [P : StrUpTo(PrefixAlphabet, MaxPrefix), sep : {"/", "\\"},
                D : RefDevs, L : RefLetters, N : RefNumbers]
    /\ res = [dev |-> <<>>, tok |-> <<>>, tn |-> <<>>]
    /\ ProcIdle

ExtractDev ==
    /\ pc = "start"
    /\ res' = [res EXCEPT !.dev = extract_dev_number_from_ref(RefOf(inp))]
    /\ pc' = "dev"
    /\ UNCHANGED <<inp, procVars>>

LastToken ==
    /\ pc = "dev"
    /\ res' = [res EXCEPT !.tok = last_token_after_dot(RefOf(inp))]
    /\ pc' = "tok"
    /\ UNCHANGED <<inp, procVars>>

SplitToken ==
    /\ pc = "tok"
    /\ res' = [res EXCEPT !.tn = split_type_number(res.tok)]
    /\ pc' = "done"
    /\ UNCHANGED <<inp, procVars>>

NextRef == ExtractDev \/ LastToken \/ SplitToken

SpecRef == InitRef /\ [][NextRef]_vars

\* a path separator, then digits, then a dot, somewhere in s
HasDevPattern(s) ==
    \E i \in 1..Len(s) : \E j \in (i + 2)..Len(s) :
        /\ IsSep(s[i])
        /\ s[j] = "."
        /\ \A k \in (i + 1)..(j - 1) : IsDigit(s[k])

\* C1 as stated: for every prefix P the device number is D and the parsed
\* reference is (L uppercased, N).
C1_RefParsedAnyPrefix ==
    /\ pc \in {"dev", "tok", "done"} => res.dev = inp.D
    /\ pc = "done" => res.tn = <<Upper(inp.L), inp.N>>

\* C1 amended: the device number is D provided P holds no separator directly
\* followed by digits and a dot; the parsed reference is (L uppercased, N)
\* for every P.
C1_RefParsed ==
    /\ pc \in {"dev", "tok", "done"} /\ ~HasDevPattern(inp.P) => res.dev = inp.D
    /\ pc = "done" => res.tn = <<Upper(inp.L), inp.N>>

C1_Witness ==
    /\ pc = "done"
    /\ Len(inp.P) = MaxPrefix
    /\ \E i \in 1..Len(inp.P) : IsDigit(inp.P[i])
    /\ ~HasDevPattern(inp.P)
    /\ res.dev = inp.D
    /\ Len(inp.L) = 2
    /\ res.tn[1] # inp.L

(***************************************************************************)
(* Units extractor.                                                        *)
(***************************************************************************)
\* whether all of t matches [-+]?\d+(?:\.\d+)?(?:[eE][-+]?\d+)?
IsNumberToken(t) ==
    LET a == IF t # <<>> /\ t[1] \in {"-", "+"} THEN Tail(t) ELSE t
        n1 == Span(a, Digits)
        b == SubSeq(a, n1 + 1, Len(a))
        n2 == IF b # <<>> /\ b[1] = "." THEN Span(Tail(b), Digits) ELSE 0
        c == IF n2 >= 1 THEN SubSeq(b, n2 + 2, Len(b)) ELSE b
        d == IF c # <<>> /\ c[1] \in {"e", "E"} THEN Tail(c) ELSE c
        e == IF d # <<>> /\ d[1] \in {"-", "+"} THEN Tail(d) ELSE d
        n3 == IF c # <<>> /\ c[1] \in {"e", "E"} THEN Span(e, Digits) ELSE 0
        f == IF n3 >= 1 THEN SubSeq(e, n3 + 1, Len(e)) ELSE c
    IN  n1 >= 1 /\ f = <<>>

WsChars == {" ", "TAB", "LF", "NBSP"}

AllSpace(s) == \A i \in 1..Len(s) : IsSpace(s[i])

\* group 1 of re.match(r"^[\s]*<number>\s+(.+?)\s*$", s), or <<>> without a
\* match: \s+ is greedy and .+? lazy, "." matches no line feed
UnitsMatch(s) ==
    LET i0 == Span(s, WsChars)
        rest == SubSeq(s, i0 + 1, Len(s))
        nt == IF \E i \in 1..Len(rest) : IsSpace(rest[i])
              THEN (CHOOSE i \in 1..Len(rest) :
                       IsSpace(rest[i]) /\ \A k \in 1..(i - 1) : ~IsSpace(rest[k])) - 1
              ELSE Len(rest)
        j == i0 + nt + 1
        k == j + Span(SubSeq(s, j, Len(s)), WsChars)
        Ends(a) == {e \in a..Len(s) :
                       /\ \A x \in a..e : s[x] # "LF"
                       /\ AllSpace(SubSeq(s, e + 1, Len(s)))}
        starts == {a \in (j + 1)..k : Ends(a) # {}}
    IN  IF ~IsNumberToken(SubSeq(rest, 1, nt)) \/ starts = {} THEN <<>>
        ELSE LET a == CHOOSE x \in starts : \A y \in starts : y <= x
                 e == CHOOSE x \in Ends(a) : \A y \in Ends(a) : x <= y
             IN  SubSeq(s, a, e)

extract_units_single_pass(value_field) ==
    LET s == Replace(StripChar(Strip(value_field), "QUOTE"), <<"APOS">>, <<>>)
    IN  UnitsMatch(_normalize_mojibake(s))

extract_units(value_field) ==
    LET s == Replace(StripChar(Strip(value_field), "QUOTE"), <<"APOS">>, <<>>)
    IN  _normalize_mojibake(UnitsMatch(_normalize_mojibake(s)))

(***************************************************************************)
(* Value strings: lead + tok + gap spaces + unit.                          *)
(***************************************************************************)
UnitAlphabet == {"k", " ", "LF", "APOS", "QUOTE", "ACIRC", "REPL", "C"}

ValueTokens ==
    {<<"5">>, <<"-", "2", ".", "5">>, <<"1", "e", "3">>,
     <<>>, <<"5", ".">>, <<"k", "5">>, <<"5", "e">>}

ValueOf(i) == i.lead \o i.tok \o [k \in 1..i.gap |-> " "] \o i.unit

InitUnits ==
    /\ pc = "start"
    /\ inp \in [lead : {<<>>, <<"QUOTE">>}, tok : ValueTokens, gap : {0, 1, 2},
                unit : StrUpTo(UnitAlphabet, MaxUnit)]
    /\ res = [units |-> <<>>]
    /\ ProcIdle

ExtractUnits ==
    /\ pc = "start"
    /\ res' = [res EXCEPT !.units = extract_units(ValueOf(inp))]
    /\ pc' = "done"
    /\ UNCHANGED <<inp, procVars>>

NextUnits == ExtractUnits

SpecUnits == InitUnits /\ [][NextUnits]_vars

\* the first whitespace-delimited token of s
FirstToken(s) ==
    LET r == LStrip(s)
    IN  SubSeq(r, 1, CHOOSE n \in 0..Len(r) :
                         /\ \A k \in 1..n : ~IsSpace(r[k])
                         /\ n < Len(r) => IsSpace(r[n + 1]))

\* the unit text u, trimmed, with the mojibake repaired in the two passes of
\* the units extractor
RepairedUnit(u) == Strip(_normalize_mojibake(_normalize_mojibake(u)))

\* C6 as stated: number + spaces + unit text gives the unit text trimmed and
\* repaired; no unit text after the number, or no numeric token at the start
\* of the value, gives the empty string.
C6_UnitsAsStated ==
    pc = "done" =>
      /\ (inp.lead = <<>> /\ IsNumberToken(inp.tok) /\ inp.gap >= 1
            /\ Strip(inp.unit) # <<>>)
         => res.units = RepairedUnit(inp.unit)
      /\ (inp.lead = <<>> /\ IsNumberToken(inp.tok) /\ Strip(inp.unit) = <<>>)
         => res.units = <<>>
      /\ ~IsNumberToken(FirstToken(ValueOf(inp))) => res.units = <<>>

\* unit text the extractor hands back whole: no apostrophe, no double quote
\* at its end, and after repair some text that stays on one line
PlainUnit(u) ==
    /\ \A i \in 1..Len(u) : u[i] # "APOS"
    /\ RStrip(u) = <<>> \/ RStrip(u)[Len(RStrip(u))] # "QUOTE"
    /\ Strip(_normalize_mojibake(u)) # <<>>
    /\ \A i \in 1..Len(Strip(_normalize_mojibake(u))) :
          Strip(_normalize_mojibake(u))[i] # "LF"

\* the value as the number pattern sees it: ends trimmed of whitespace and
\* double quotes, apostrophes deleted, mojibake normalized
Unquoted(v) ==
    LET a == Strip(v)
        lo == Span(a, {"QUOTE"})
        b == SubSeq(a, lo + 1, Len(a))
        hi == CHOOSE n \in 0..Len(b) :
                 /\ \A k \in (n + 1)..Len(b) : b[k] = "QUOTE"
                 /\ n >= 1 => b[n] # "QUOTE"
    IN  _normalize_mojibake(
            SelectSeq(SubSeq(b, 1, hi), LAMBDA c : c # "APOS"))

\* C6 amended: number + spaces + unit text gives the unit text trimmed and
\* repaired provided the unit text holds no apostrophe, does not end in a
\* double quote and, once repaired, is non-empty on a single line; a value
\* whose text after the number is only whitespace gives the empty string;
\* so does a value that, once unquoted and normalized, does not start with
\* a numeric token.
C6_Units ==
    pc = "done" =>
      /\ (inp.lead = <<>> /\ IsNumberToken(inp.tok) /\ inp.gap >= 1
            /\ PlainUnit(inp.unit))
         => res.units = RepairedUnit(inp.unit)
      /\ (inp.lead = <<>> /\ IsNumberToken(inp.tok) /\ Strip(inp.unit) = <<>>)
         => res.units = <<>>
      /\ ~IsNumberToken(FirstToken(Unquoted(ValueOf(inp)))) => res.units = <<>>

C6_Witness ==
    /\ pc = "done"
    /\ inp.lead = <<>>
    /\ inp.tok = <<"-", "2", ".", "5">>
    /\ inp.gap = 2
    /\ inp.unit = <<"REPL", "ACIRC", "C">>
    /\ PlainUnit(inp.unit)
    /\ res.units = <<"DEG", "C">>

(***************************************************************************)
(* Sorter.  A row is the tuple read_rows builds:                           *)
(*   <<obj_type, obj_num, name, units, dev_number, dev_name>>              *)
(***************************************************************************)
CodePoint(c) ==
    CASE c = "A" -> 65 [] c = "I" -> 73 [] c = "V" -> 86 [] c = "X" -> 88
      [] c = "a" -> 97 [] c = "i" -> 105 [] c = "v" -> 118 [] c = "x" -> 120
      [] c \in Digits -> 48 + (CHOOSE d \in 0..9 : <<"0", "1", "2", "3", "4", "5", "6", "7", "8", "9">>[d + 1] = c)
      [] OTHER -> 63

\* str < str: by code point, a proper prefix first
RECURSIVE StrLess(_, _)
StrLess(a, b) ==
    IF b = <<>> THEN FALSE
    ELSE IF a = <<>> THEN TRUE
    ELSE IF a[1] # b[1] THEN CodePoint(a[1]) < CodePoint(b[1])
    ELSE StrLess(Tail(a), Tail(b))

DigitValue(c) == CodePoint(c) - 48

RECURSIVE DigitsValue(_)
DigitsValue(s) ==
    IF s = <<>> THEN 0 ELSE 10 * DigitsValue(SubSeq(s, 1, Len(s) - 1)) + DigitValue(s[Len(s)])

\* int(n): surrounding whitespace and one sign are accepted; anything else
\* than digits raises ValueError
PyInt(n) ==
    LET t == Strip(n)
        neg == t # <<>> /\ t[1] = "-"
        body == IF t # <<>> /\ t[1] \in {"-", "+"} THEN Tail(t) ELSE t
    IN  IF body # <<>> /\ Span(body, Digits) = Len(body)
        THEN [ok |-> TRUE, val |-> IF neg THEN 0 - DigitsValue(body) ELSE DigitsValue(body)]
        ELSE [ok |-> FALSE, val |-> 0]

\* the key without the upper-casing of the type
s_key_case_sensitive(r) ==
    [t |-> r[1], ni |-> IF r[2] # <<>> /\ PyInt(r[2]).ok THEN PyInt(r[2]).val ELSE 0,
     raised |-> FALSE]

\* ni = int(n) if n else 0, and 0 when int raises ValueError; the except
\* clause lets no exception out of s_key
s_key(r) ==
    [t |-> Upper(r[1]), ni |-> IF r[2] # <<>> /\ PyInt(r[2]).ok THEN PyInt(r[2]).val ELSE 0,
     raised |-> FALSE]

\* tuple < tuple on the keys
KeyLess(a, b) == StrLess(a.t, b.t) \/ (a.t = b.t /\ a.ni < b.ni)

\* list.sort(key=s_key) is stable: a row goes behind every row already placed
\* whose key is not greater
RECURSIVE InsertRow(_, _)
InsertRow(sorted, r) ==
    IF sorted = <<>> THEN <<r>>
    ELSE IF KeyLess(s_key(r), s_key(sorted[Len(sorted)]))
         THEN InsertRow(SubSeq(sorted, 1, Len(sorted) - 1), r) \o <<sorted[Len(sorted)]>>
         ELSE Append(sorted, r)

RECURSIVE sort_rows(_)
sort_rows(rs) ==
    IF rs = <<>> THEN <<>>
    ELSE InsertRow(sort_rows(SubSeq(rs, 1, Len(rs) - 1)), rs[Len(rs)])

MkRow(t, n) == <<t, n, <<"n">>, <<>>, <<>>, <<>>>>

SortTypes == {<<"A", "V">>, <<"A", "I">>, <<"a", "v">>}

SortNumbers == {<<"2">>, <<"1", "0">>, <<"x">>, <<>>}

SortRowSet == {MkRow(t, n) : t \in SortTypes, n \in SortNumbers}

\* the rows of the example: types {AV, AI}, numbers {2, 10, x}
ExampleRows ==
    <<MkRow(<<"A", "V">>, <<"1", "0">>), MkRow(<<"A", "I">>, <<"2">>),
      MkRow(<<"A", "V">>, <<"x">>), MkRow(<<"A", "I">>, <<"1", "0">>),
      MkRow(<<"A", "V">>, <<"2">>), MkRow(<<"A", "I">>, <<"x">>)>>

ExampleSorted ==
    <<MkRow(<<"A", "I">>, <<"x">>), MkRow(<<"A", "I">>, <<"2">>),
      MkRow(<<"A", "I">>, <<"1", "0">>), MkRow(<<"A", "V">>, <<"x">>),
      MkRow(<<"A", "V">>, <<"2">>), MkRow(<<"A", "V">>, <<"1", "0">>)>>

ExampleOrders == {[i \in 1..6 |-> ExampleRows[p[i]]] : p \in Permutations(1..6)}

InitSort ==
    /\ pc = "start"
    /\ inp \in {[rows |-> s] : s \in StrUpTo(SortRowSet, MaxRows) \cup ExampleOrders}
    /\ res = [sorted |-> <<>>, raised |-> FALSE]
    /\ ProcIdle

\* an exception of the key function leaves rows.sort and sort_rows
SortRows ==
    /\ pc = "start"
    /\ res' = IF \E i \in 1..Len(inp.rows) : s_key(inp.rows[i]).raised
              THEN [sorted |-> <<>>, raised |-> TRUE]
              ELSE [sorted |-> sort_rows(inp.rows), raised |-> FALSE]
    /\ pc' = "done"
    /\ UNCHANGED <<inp, procVars>>

NextSort == SortRows

SpecSort == InitSort /\ [][NextSort]_vars

\* the sort key the claim states, written out for the rows of the model
ClaimedType(r) ==
    CASE r[1] = <<"a", "v">> -> <<"A", "V">> [] OTHER -> r[1]

ClaimedNumber(r) ==
    CASE r[2] = <<"2">> -> 2 [] r[2] = <<"1", "0">> -> 10 [] OTHER -> 0

ClaimedLeq(a, b) ==
    \/ ClaimedType(a) = <<"A", "I">> /\ ClaimedType(b) = <<"A", "V">>
    \/ ClaimedType(a) = ClaimedType(b) /\ ClaimedNumber(a) <= ClaimedNumber(b)

ClaimedSameKey(a, b) ==
    ClaimedType(a) = ClaimedType(b) /\ ClaimedNumber(a) = ClaimedNumber(b)

\* C5: sort_rows raises nothing and returns a permutation of its input,
\* ascending by (type uppercased, number as integer or 0), rows of equal key
\* in input order;
\* the six rows of the example come out AI-x, AI-2, AI-10, AV-x, AV-2, AV-10.
C5_SortStable ==
    pc = "done" =>
      LET in == inp.rows
          out == res.sorted
      IN  /\ ~res.raised
          /\ Len(out) = Len(in)
          /\ \E p \in Permutations(1..Len(in)) :
                /\ \A i \in 1..Len(in) : out[i] = in[p[i]]
                /\ \A i, j \in 1..Len(in) :
                      i < j => /\ ClaimedLeq(out[i], out[j])
                               /\ ClaimedSameKey(out[i], out[j]) => p[i] < p[j]
          /\ in \in ExampleOrders => out = ExampleSorted

C5_Witness ==
    /\ pc = "done"
    /\ inp.rows = <<MkRow(<<"a", "v">>, <<"x">>), MkRow(<<"A", "V">>, <<>>),
                    MkRow(<<"A", "I">>, <<"1", "0">>)>>
    /\ res.sorted = <<MkRow(<<"A", "I">>, <<"1", "0">>), MkRow(<<"a", "v">>, <<"x">>),
                      MkRow(<<"A", "V">>, <<>>)>>

(***************************************************************************)
(* Row extractor.  A source file is the sequence of records csv.reader     *)
(* yields for it; a record is a sequence of cells.                         *)
(***************************************************************************)
extract_row(row) ==
    LET obj_ref_full == _clean_ws(row[1])
        name == _clean_ws(row[5])
        value_field == Strip(row[6])
        obj_ref == last_token_after_dot(obj_ref_full)
        tn == split_type_number(obj_ref)
    IN  <<tn[1], tn[2], name, extract_units(value_field),
          extract_dev_number_from_ref(obj_ref_full), <<>>>>

RECURSIVE read_data_rows(_)
read_data_rows(recs) ==
    IF recs = <<>> THEN <<>>
    ELSE IF Len(recs[1]) < 6 THEN read_data_rows(Tail(recs))
    ELSE <<extract_row(recs[1])>> \o read_data_rows(Tail(recs))

read_rows_with_header(content) == read_data_rows(content)

\* next(reader) skips the header; an empty file gives no rows
read_rows(content) ==
    IF content = <<>> THEN <<>> ELSE read_data_rows(Tail(content))

(***************************************************************************)
(* Writer.  An output file is the sequence of its lines, each without its  *)
(* line feed; the encoding utf-8-sig puts "BOM" in front of the first.     *)
(***************************************************************************)
\* csv.writer, QUOTE_MINIMAL: a cell holding the delimiter, the quote
\* character or a line feed is quoted, its quotes doubled
CsvCell(c) ==
    IF \E i \in 1..Len(c) : c[i] \in {",", "QUOTE", "LF"}
    THEN <<"QUOTE">> \o Replace(c, <<"QUOTE">>, <<"QUOTE", "QUOTE">>) \o <<"QUOTE">>
    ELSE c

RECURSIVE CsvLine(_)
CsvLine(cells) ==
    IF cells = <<>> THEN <<>>
    ELSE IF Len(cells) = 1 THEN CsvCell(cells[1])
    ELSE CsvCell(cells[1]) \o <<",">> \o CsvLine(Tail(cells))

HeaderCells ==
    <<<<"O", "b", "j", "e", "c", "t", "_", "T", "y", "p", "e">>,
      <<"O", "b", "j", "e", "c", "t", "_", "N", "u", "m", "b", "e", "r">>,
      <<"N", "a", "m", "e">>,
      <<"U", "n", "i", "t", "s">>,
      <<"B", "u", "i", "l", "d", "i", "n", "g">>,
      <<"D", "E", "V", "_", "N", "u", "m", "b", "e", "r">>,
      <<"D", "E", "V", "_", "N", "a", "m", "e">>>>

out_row(r, building, dev_name_override, empty_placeholder) ==
    <<_sanitize_cell(r[1], empty_placeholder),
      _sanitize_cell(r[2], empty_placeholder),
      _sanitize_cell(r[3], empty_placeholder),
      _sanitize_cell(r[4], empty_placeholder),
      _sanitize_cell(building, empty_placeholder),
      _sanitize_cell(r[5], empty_placeholder),
      _sanitize_cell(dev_name_override, empty_placeholder)>>

write_csv(rs, building, dev_name_override, write_header, empty_placeholder) ==
    LET body == [i \in 1..Len(rs) |->
                    CsvLine(out_row(rs[i], building, dev_name_override, empty_placeholder))]
        lines == IF write_header THEN <<CsvLine(HeaderCells)>> \o body ELSE body
    IN  [i \in 1..Len(lines) |-> IF i = 1 THEN <<"BOM">> \o lines[i] ELSE lines[i]]

(***************************************************************************)
(* Reading an output file back: utf-8-sig drops the byte-order mark,       *)
(* csv.reader undoes the quoting.                                          *)
(***************************************************************************)
\* the cell at the front of s, read character by character; st is "start"
\* at the start of the cell, "plain" inside an unquoted cell, "quoted" inside
\* quotes, "endq" after a quote seen inside quotes
RECURSIVE ScanCell(_, _, _)
ScanCell(s, st, cell) ==
    IF s = <<>> THEN [cell |-> cell, rest |-> <<>>, more |-> FALSE]
    ELSE LET c == s[1]
             r == Tail(s)
         IN  IF st = "quoted"
             THEN IF c = "QUOTE" THEN ScanCell(r, "endq", cell)
                  ELSE ScanCell(r, "quoted", Append(cell, c))
             ELSE IF c = "," THEN [cell |-> cell, rest |-> r, more |-> TRUE]
             ELSE IF c = "QUOTE" /\ st = "start" THEN ScanCell(r, "quoted", cell)
             ELSE IF c = "QUOTE" /\ st = "endq"
                  THEN ScanCell(r, "quoted", Append(cell, c))
             ELSE ScanCell(r, "plain", Append(cell, c))

RECURSIVE CsvParse(_)
CsvParse(s) ==
    LET first == ScanCell(s, "start", <<>>)
    IN  IF first.more THEN <<first.cell>> \o CsvParse(first.rest) ELSE <<first.cell>>

ReadBackLine(line) == IF line = <<>> THEN <<>> ELSE CsvParse(line)

ReadBackFile(lines) ==
    [i \in 1..Len(lines) |->
        ReadBackLine(IF i = 1 /\ lines[i] # <<>> /\ lines[i][1] = "BOM"
                     THEN Tail(lines[i]) ELSE lines[i])]

(***************************************************************************)
(* One record through the row extractor, the writer and back.              *)
(***************************************************************************)
CellAlphabet == {"T", " ", ",", "QUOTE", "REPL", "ACIRC", "C"}

RawRecord(ref, name, value) == <<ref, <<>>, <<>>, <<>>, name, value>>

RoundTripRecords ==
    {RawRecord(<<"/", "/", "S", "/", "7", ".", "A", "V", "2">>, name, <<"5", " ", "k">>) :
        name \in StrUpTo(CellAlphabet, MaxCell)}
    \cup
    {RawRecord(<<"/", "/", "S", "/", "7", ".", "A", "V", "2">>, <<"T">>, <<"5", " ">> \o u) :
        u \in StrUpTo(CellAlphabet, MaxCell)}

InitRow ==
    /\ pc = "start"
    /\ inp \in [rec : RoundTripRecords,
                building : {_clean_ws(<<" ", "B", " ", " ", "1">>)},
                dev_name : {_clean_ws(<<"A", "TAB", "C", " ">>)},
                write_header : BOOLEAN,
                empty_placeholder : {<<"-">>}]
    /\ res = [row |-> <<>>, file |-> <<>>, back |-> <<>>]
    /\ ProcIdle

ReadRow ==
    /\ pc = "start"
    /\ res' = [res EXCEPT !.row = read_rows(<<HeaderCells, inp.rec>>)[1]]
    /\ pc' = "read"
    /\ UNCHANGED <<inp, procVars>>

WriteRow ==
    /\ pc = "read"
    /\ res' = [res EXCEPT !.file = write_csv(<<res.row>>, inp.building, inp.dev_name,
                                             inp.write_header, inp.empty_placeholder)]
    /\ pc' = "written"
    /\ UNCHANGED <<inp, procVars>>

ReadBack ==
    /\ pc = "written"
    /\ res' = [res EXCEPT !.back = ReadBackFile(res.file)]
    /\ pc' = "done"
    /\ UNCHANGED <<inp, procVars>>

NextRow == ReadRow \/ WriteRow \/ ReadBack

SpecRow == InitRow /\ [][NextRow]_vars

\* C7: a row of the row extractor with all fields non-empty, written with a
\* normalized building and device name and a non-default placeholder, is
\* read back from the output file with the same seven values.
C7_RoundTrip ==
    (pc = "done" /\ \A k \in 1..5 : res.row[k] # <<>>) =>
        res.back[Len(res.back)] =
            <<res.row[1], res.row[2], res.row[3], res.row[4], inp.building,
              res.row[5], inp.dev_name>>

(***************************************************************************)
(* process_all_raw.                                                        *)
(*   pc = "loop"    at the head of  for src in csv_files                   *)
(*   pc = "group"   at the head of  for key, g_rows in groups.items()      *)
(*   pc = "prompt"  at input() for the device name of the group cur        *)
(*   pc = "write"   before write_csv on the primary path                   *)
(*   pc = "alt"     in the handler of PermissionError, before write_csv on *)
(*                  the alternate path                                     *)
(*   pc = "done"    process_all_raw has returned                           *)
(*   pc = "crashed" an exception has left process_all_raw                  *)
(***************************************************************************)
Building == <<"B", "1">>

RecA == RawRecord(<<"/", "5", "0", "0", ".", "A", "V", "2">>, <<"n">>, <<"5", " ", "k">>)

RecB == RawRecord(<<"/", "5", "0", "0", ".", "a", "i", "1", "0">>, <<"m">>, <<"1", " ", "k">>)

RecC == RawRecord(<<"S", "/", "x">>, <<"c">>, <<"1", "0", " ", "%">>)

RecShort == <<<<"x">>, <<"y">>, <<>>>>

SourceHeader == <<<<"O">>, <<>>, <<>>, <<>>, <<"N">>, <<"V">>>>

\* the source files of the model: an empty file, a header alone, a header
\* with a short record alone, and files of one, two and three records
FileContents ==
    {<<>>,
     <<SourceHeader>>,
     <<SourceHeader, RecShort>>,
     <<SourceHeader, RecA>>,
     <<SourceHeader, RecB, RecA>>,
     <<SourceHeader, RecC, RecShort, RecA>>}

Stems == {<<"a">>, <<"5", "0", "0">>}

\* what the user may type at the device-name prompt
Answers == {<<" ">>, <<" ", "P", "TAB", " ", "1">>, <<"Q">>}

WriteOutcomes == {"ok", "PermissionError", "OSError"}

CsvSuffix == <<".", "c", "s", "v">>

PrimaryPath(key) == key \o CsvSuffix

AltPath(key) == key \o <<"_", "n", "e", "w">> \o CsvSuffix

\* groups.setdefault(key, []).append(r): a dict keeps its keys in insertion order
RECURSIVE AddToGroups(_, _, _)
AddToGroups(groups, key, r) ==
    IF groups = <<>> THEN <<[key |-> key, g_rows |-> <<r>>]>>
    ELSE IF groups[1].key = key
         THEN <<[groups[1] EXCEPT !.g_rows = Append(@, r)]>> \o Tail(groups)
         ELSE <<groups[1]>> \o AddToGroups(Tail(groups), key, r)

group_key(r, stem) == IF r[5] # <<>> THEN r[5] ELSE stem

RECURSIVE group_rows(_, _)
group_rows(rs, stem) ==
    IF rs = <<>> THEN <<>>
    ELSE AddToGroups(group_rows(SubSeq(rs, 1, Len(rs) - 1), stem),
                     group_key(rs[Len(rs)], stem), rs[Len(rs)])

WriteFile(d, path, lines) ==
    {f \in d : f.path # path} \cup {[path |-> path, lines |-> lines]}

Init ==
    /\ pc = "loop"
    /\ inp \in [nfiles : 0..MaxFiles, write_header : {TRUE}]
    /\ res = <<>>
    /\ ProcIdle

\* for src in csv_files: rows = read_rows(src); the skip of a file without
\* rows; the grouping of its rows
ReadFile ==
    /\ pc = "loop"
    /\ fileno < inp.nfiles
    /\ \E stem \in Stems, content \in FileContents, readable \in BOOLEAN :
          /\ fileno' = fileno + 1
          /\ src' = [stem |-> stem, content |-> content, readable |-> readable]
          /\ IF ~readable
             THEN /\ pc' = "crashed"
                  /\ UNCHANGED <<rows, pending, console>>
             ELSE /\ rows' = read_rows(content)
                  /\ IF rows' = <<>>
                     THEN /\ console' = "skip"
                          /\ pc' = "loop"
                          /\ pending' = <<>>
                     ELSE /\ pending' = group_rows(rows', stem)
                          /\ pc' = "group"
                          /\ UNCHANGED console
    /\ cur' = NoGroup
    /\ attempts' = <<>>
    /\ prompts' = 0
    /\ UNCHANGED <<inp, res, disk>>

\* the next (key, g_rows) of groups.items(), sorted; the next source file
\* when there is none (the variables of the finished file go out of use)
NextGroup ==
    /\ pc = "group"
    /\ IF pending = <<>>
       THEN /\ pc' = "loop"
            /\ src' = NoFile
            /\ rows' = <<>>
            /\ cur' = NoGroup
            /\ UNCHANGED pending
       ELSE /\ cur' = [key |-> pending[1].key,
                       g_rows |-> sort_rows(pending[1].g_rows),
                       dev_name |-> <<>>]
            /\ pending' = Tail(pending)
            /\ pc' = "prompt"
            /\ UNCHANGED <<src, rows>>
    /\ attempts' = <<>>
    /\ prompts' = 0
    /\ UNCHANGED <<inp, res, fileno, disk, console>>

\* dev_name_input = _clean_ws(input(...)), asked again while it is empty
Prompt ==
    /\ pc = "prompt"
    /\ \E answer \in Answers :
          LET dev_name_input == _clean_ws(answer)
          IN  IF dev_name_input # <<>>
              THEN /\ cur' = [cur EXCEPT !.dev_name = dev_name_input]
                   /\ pc' = "write"
                   /\ UNCHANGED console
              ELSE /\ prompts < MaxPrompts
                   /\ console' = "empty_name"
                   /\ UNCHANGED <<cur, pc>>
    /\ prompts' = prompts + 1
    /\ UNCHANGED <<inp, res, fileno, src, rows, pending, disk, attempts>>

Attempt(path, outcome) ==
    [path |-> path, outcome |-> outcome, g_rows |-> cur.g_rows,
     building |-> Building, dev_name |-> cur.dev_name, prompts |-> prompts]

FileLines == write_csv(cur.g_rows, Building, cur.dev_name, inp.write_header, <<>>)

\* write_csv on <key>.csv: PermissionError goes to the handler, any other
\* exception leaves process_all_raw
WritePrimary ==
    /\ pc = "write"
    /\ \E outcome \in WriteOutcomes :
          /\ attempts' = Append(attempts, Attempt(PrimaryPath(cur.key), outcome))
          /\ CASE outcome = "ok" ->
                    /\ disk' = WriteFile(disk, PrimaryPath(cur.key), FileLines)
                    /\ console' = "converted"
                    /\ pc' = "group"
               [] outcome = "PermissionError" ->
                    /\ pc' = "alt"
                    /\ UNCHANGED <<disk, console>>
               [] outcome = "OSError" ->
                    /\ pc' = "crashed"
                    /\ UNCHANGED <<disk, console>>
    /\ UNCHANGED <<inp, res, fileno, src, rows, pending, cur, prompts>>

\* write_csv on <key>_new.csv with the same arguments
WriteAlternate ==
    /\ pc = "alt"
    /\ \E outcome \in WriteOutcomes :
          /\ attempts' = Append(attempts, Attempt(AltPath(cur.key), outcome))
          /\ CASE outcome = "ok" ->
                    /\ disk' = WriteFile(disk, AltPath(cur.key), FileLines)
                    /\ console' = "warning"
                    /\ pc' = "group"
               [] outcome = "PermissionError" ->
                    /\ console' = "error"
                    /\ pc' = "group"
                    /\ UNCHANGED disk
               [] outcome = "OSError" ->
                    /\ pc' = "crashed"
                    /\ UNCHANGED <<disk, console>>
    /\ UNCHANGED <<inp, res, fileno, src, rows, pending, cur, prompts>>

\* csv_files is exhausted (or was empty): process_all_raw returns
Finish ==
    /\ pc = "loop"
    /\ fileno = inp.nfiles
    /\ pc' = "done"
    /\ console' = IF inp.nfiles = 0 THEN "nothing" ELSE console
    /\ UNCHANGED <<inp, res, fileno, src, rows, pending, cur, disk, attempts, prompts>>

Next == ReadFile \/ NextGroup \/ Prompt \/ WritePrimary \/ WriteAlternate \/ Finish

Spec == Init /\ [][Next]_vars

(***************************************************************************)
(* Properties of process_all_raw.                                          *)
(***************************************************************************)
\* C3: a failure tied to one source file or one group never ends the batch:
\* an exception leaves process_all_raw only when no group and no file is left.
C3_BatchSurvives ==
    pc = "crashed" => (pending = <<>> /\ fileno = inp.nfiles)

InGroup(g, r) == \E k \in 1..Len(g.g_rows) : g.g_rows[k] = r

RECURSIVE SumLen(_)
SumLen(groups) ==
    IF groups = <<>> THEN 0 ELSE Len(groups[1].g_rows) + SumLen(Tail(groups))

\* the file a successful write of the group cur has left at its path
WrittenFile ==
    CHOOSE f \in disk : f.path = attempts[Len(attempts)].path

\* C4: the groups of one source file are the partition of its rows by
\* device_number, the rows without one forming the group keyed by the stem;
\* <key>.csv holds exactly the rows of its group, in order, each with the
\* one device name of the group.
C4_GroupsPartition ==
    /\ (pc = "group" /\ cur = NoGroup) =>
          /\ \A i, j \in 1..Len(rows) :
                (\E k \in 1..Len(pending) :
                    InGroup(pending[k], rows[i]) /\ InGroup(pending[k], rows[j]))
                <=> rows[i][5] = rows[j][5]
          /\ \A k \in 1..Len(pending) : \A r \in 1..Len(pending[k].g_rows) :
                pending[k].key = IF pending[k].g_rows[r][5] # <<>>
                                 THEN pending[k].g_rows[r][5] ELSE src.stem
          /\ SumLen(pending) = Len(rows)
    /\ (pc = "group" /\ attempts # <<>> /\ attempts[Len(attempts)].outcome = "ok") =>
          LET back == ReadBackFile(WrittenFile.lines)
              h == IF inp.write_header THEN 1 ELSE 0
          IN  /\ Len(back) = h + Len(cur.g_rows)
              /\ \A i \in 1..Len(cur.g_rows) :
                    /\ back[h + i][1] = cur.g_rows[i][1]
                    /\ back[h + i][2] = cur.g_rows[i][2]
                    /\ back[h + i][3] = cur.g_rows[i][3]
                    /\ back[h + i][6] = cur.g_rows[i][5]
                    /\ back[h + i][7] = cur.dev_name
              /\ \A i, j \in 1..Len(cur.g_rows) :
                    i < j => ~KeyLess(s_key(cur.g_rows[j]), s_key(cur.g_rows[i]))

\* rs holds one row for each record of content after the first that has at
\* least 6 cells, in the order of the records
RowsMatch(content, rs) ==
    LET idx == {i \in 2..Len(content) : Len(content[i]) >= 6}
    IN  /\ Len(rs) = Cardinality(idx)
        /\ \E f \in [1..Len(rs) -> idx] :
              /\ \A a, b \in 1..Len(rs) : a < b => f[a] < f[b]
              /\ \A k \in 1..Len(rs) : rs[k] = extract_row(content[f[k]])

\* the step that reads a source file without usable rows
SkipStep ==
    (pc = "loop" /\ fileno' = fileno + 1 /\ src'.readable /\ rows' = <<>>)
    => /\ console' = "skip"
       /\ disk' = disk
       /\ prompts' = 0
       /\ attempts' = <<>>
       /\ pending' = <<>>
       /\ pc' = "loop"

\* C8: read_rows drops the first line and yields one row, in order, for each
\* later record of at least 6 cells and none for a shorter one; a file that
\* yields no rows gets no prompt and no output file, is reported as a skip,
\* and the next file is read.
C8_HeaderSkippedShortDropped ==
    /\ [](src.readable => RowsMatch(src.content, rows))
    /\ [][SkipStep]_vars

C8_Witness ==
    /\ pc = "loop"
    /\ console = "skip"
    /\ src.readable
    /\ src.content = <<SourceHeader, RecShort>>
    /\ rows = <<>>
    /\ fileno = 1
    /\ fileno < inp.nfiles

\* C9: per group the primary path comes first and after a non-empty device
\* name; the alternate path only after a failed primary attempt, once, with
\* the same rows, building and device name and no new prompt; when both
\* attempts fail the error is reported and the next group is taken.
C9_WriteRetry ==
    /\ attempts # <<>> =>
          /\ attempts[1].path = PrimaryPath(cur.key)
          /\ attempts[1].dev_name # <<>>
    /\ Len(attempts) <= 2
    /\ Len(attempts) = 2 =>
          /\ attempts[1].outcome # "ok"
          /\ attempts[2].path = AltPath(cur.key)
          /\ attempts[2].g_rows = attempts[1].g_rows
          /\ attempts[2].building = attempts[1].building
          /\ attempts[2].dev_name = attempts[1].dev_name
          /\ attempts[2].prompts = attempts[1].prompts
    /\ (Len(attempts) = 2 /\ attempts[2].outcome # "ok") =>
          (pc = "group" /\ console = "error")

RecordsOnDisk(d) ==
    UNION {{ReadBackFile(f.lines)[i] : i \in 1..Len(f.lines)} : f \in d}

\* C10: no row is lost over a run: a record once written to some output
\* file is in some output file ever after (no output file is overwritten by
\* the output of another group or source file).
C10_NoRowLost ==
    [][RecordsOnDisk(disk) \subseteq RecordsOnDisk(disk')]_vars

====
